---- MODULE Spec2Model ----
(***************************************************************************)
(* The two starter notebooks of graph-notebook as a state machine.         *)
(*                                                                         *)
(* 01-Modeling-Molecular-Structures-as-Graph-Data-Gremlin.ipynb: a kernel  *)
(* whose state is the module-level names nodes_dict, edges_dict,           *)
(* caffeine_smiles, mol, nodes_df, edges_df and client, plus the remote    *)
(* graph store the notebook writes to.  One action per code cell, the two  *)
(* projection loops and the clean-up loop one action per iteration.        *)
(*                                                                         *)
(* 03-Using-RDF-and-SPARQL-to-Access-the-Graph.ipynb: three %%sparql       *)
(* cells, each sending one request.                                        *)
(***************************************************************************)
EXTENDS Integers, Sequences, FiniteSets, TLC

VARIABLES
    pc,               \* the cell the user executes next
    nodes_dict,       \* column name -> list
    edges_dict,       \* column name -> list
    caffeine_smiles,  \* the descriptor text
    mol,              \* result of Chem.MolFromSmiles
    ai,               \* atoms already visited by the atom loop
    bi,               \* bonds already visited by the bond loop
    nodes_df,         \* pd.DataFrame.from_dict(nodes_dict)
    edges_df,         \* pd.DataFrame.from_dict(edges_dict)
    client,           \* the Neptune connection handle
    store,            \* the remote graph: vertices and edges present
    ci,               \* rows already visited by the clean-up loop
    requests,         \* the Gremlin requests the clean-up loop has issued
    sparql_request,   \* the last request sent by a %%sparql cell
    runs,             \* history: conversions started so far
    base              \* history: the dicts as they were when this projection began

vars == <<pc, nodes_dict, edges_dict, caffeine_smiles, mol, ai, bi, nodes_df,
          edges_df, client, store, ci, requests, sparql_request, runs, base>>

\* How many conversions (descriptor -> upload) one behaviour may start.
MaxRuns == 2

----------------------------------------------------------------------------
(* str(int): the decimal numeral of a non-negative integer.                *)

Digit(d) ==
    CASE d = 0 -> "0" [] d = 1 -> "1" [] d = 2 -> "2" [] d = 3 -> "3"
      [] d = 4 -> "4" [] d = 5 -> "5" [] d = 6 -> "6" [] d = 7 -> "7"
      [] d = 8 -> "8" [] d = 9 -> "9"

\* Mutant of Str: only the last decimal digit is written.
Str_LastDigit(n) == Digit(n % 10)

RECURSIVE Str(_)
Str(n) == IF n < 10 THEN Digit(n) ELSE Str(n \div 10) \o Digit(n % 10)

----------------------------------------------------------------------------
(* The molecules Chem.MolFromSmiles yields for the descriptors used here.  *)
(* A molecule is its atom list (GetAtoms order, GetIdx = position - 1) and  *)
(* its bond list (GetBonds order: chain bonds as written, then ring        *)
(* closures).  None is the result for text that is not a valid SMILES.     *)

Atom(i, sym, z, arom) ==
    [idx |-> i, symbol |-> sym, atomicNum |-> z, isAromatic |-> arom]

Bond(b, e, t) == [begin |-> b, end |-> e, type |-> t]

None == [valid |-> FALSE, atoms |-> <<>>, bonds |-> <<>>]

Mol(atoms, bonds) == [valid |-> TRUE, atoms |-> atoms, bonds |-> bonds]

Caffeine == "CN1C=NC2=C1C(=O)N(C(=O)N2C)C"

CaffeineMol ==
    Mol(<< Atom(0, "C", 6, FALSE),  Atom(1, "N", 7, TRUE),
           Atom(2, "C", 6, TRUE),   Atom(3, "N", 7, TRUE),
           Atom(4, "C", 6, TRUE),   Atom(5, "C", 6, TRUE),
           Atom(6, "C", 6, TRUE),   Atom(7, "O", 8, FALSE),
           Atom(8, "N", 7, TRUE),   Atom(9, "C", 6, TRUE),
           Atom(10, "O", 8, FALSE), Atom(11, "N", 7, TRUE),
           Atom(12, "C", 6, FALSE), Atom(13, "C", 6, FALSE) >>,
        << Bond(0, 1, "SINGLE"),     Bond(1, 2, "AROMATIC"),
           Bond(2, 3, "AROMATIC"),   Bond(3, 4, "AROMATIC"),
           Bond(4, 5, "AROMATIC"),   Bond(5, 6, "AROMATIC"),
           Bond(6, 7, "DOUBLE"),     Bond(6, 8, "AROMATIC"),
           Bond(8, 9, "AROMATIC"),   Bond(9, 10, "DOUBLE"),
           Bond(9, 11, "AROMATIC"),  Bond(11, 12, "SINGLE"),
           Bond(8, 13, "SINGLE"),    Bond(5, 1, "AROMATIC"),
           Bond(11, 4, "AROMATIC") >>)

\* octylcyclobutane: atom 1 carries the octyl branch (atoms 2..9), the ring
\* goes on with atoms 10 and 11 and closes from atom 11 back to atom 0
OctylCyclobutane == "C1C(CCCCCCCC)CC1"

OctylCyclobutaneMol ==
    Mol([i \in 1..12 |-> Atom(i - 1, "C", 6, FALSE)],
        << Bond(0, 1, "SINGLE"),  Bond(1, 2, "SINGLE"),  Bond(2, 3, "SINGLE"),
           Bond(3, 4, "SINGLE"),  Bond(4, 5, "SINGLE"),  Bond(5, 6, "SINGLE"),
           Bond(6, 7, "SINGLE"),  Bond(7, 8, "SINGLE"),  Bond(8, 9, "SINGLE"),
           Bond(1, 10, "SINGLE"), Bond(10, 11, "SINGLE"),
           Bond(11, 0, "SINGLE") >>)

\* undecane, the text ending in a blank; and the same with the name "1"
\* after the blank.  The parser reads the SMILES up to the first blank.
UndecaneBlank == "CCCCCCCCCCC "
UndecaneNamed == "CCCCCCCCCCC 1"

UndecaneMol ==
    Mol([i \in 1..11 |-> Atom(i - 1, "C", 6, FALSE)],
        [i \in 1..10 |-> Bond(i - 1, i, "SINGLE")])

\* The descriptor texts a user types into the caffeine_smiles cell.
Descriptors == { Caffeine, "C", "C=O", "C1CC1", "C1", "C(",
                 OctylCyclobutane, UndecaneBlank, UndecaneNamed }

MolFromSmiles(smiles) ==
    CASE smiles = Caffeine -> CaffeineMol
      [] smiles = "C"     -> Mol(<< Atom(0, "C", 6, FALSE) >>, << >>)
      [] smiles = "C=O"   -> Mol(<< Atom(0, "C", 6, FALSE), Atom(1, "O", 8, FALSE) >>,
                                 << Bond(0, 1, "DOUBLE") >>)
      [] smiles = "C1CC1" -> Mol(<< Atom(0, "C", 6, FALSE), Atom(1, "C", 6, FALSE),
                                    Atom(2, "C", 6, FALSE) >>,
                                 << Bond(0, 1, "SINGLE"), Bond(1, 2, "SINGLE"),
                                    Bond(2, 0, "SINGLE") >>)
      [] smiles = OctylCyclobutane -> OctylCyclobutaneMol
      [] smiles \in {UndecaneBlank, UndecaneNamed} -> UndecaneMol
      [] OTHER            -> None

----------------------------------------------------------------------------
(* The graph data model: a dict of equally long lists, one per column.     *)

NodeColumns == {"~id", "~label", "idx", "atomicNumber", "isAromatic"}
EdgeColumns == {"~id", "~label", "~from", "~to"}

EmptyDict(columns) == [k \in columns |-> << >>]

\* Mutant of AppendRow: the append to the last node column is missing.
AppendRow_SkipsColumn(dict, row) ==
    [k \in DOMAIN dict |->
        IF k = "isAromatic" THEN dict[k] ELSE Append(dict[k], row[k])]

\* one .append per column
AppendRow(dict, row) == [k \in DOMAIN dict |-> Append(dict[k], row[k])]

Rows(table) == Len(table["~id"])

NodeId(smiles, idx) == "Node-" \o smiles \o Str(idx)

EdgeId(smiles, b, e) == "edge-" \o smiles \o Str(b) \o Str(e)

NodeRow(smiles, atom) ==
    [k \in NodeColumns |->
        CASE k = "~id"          -> NodeId(smiles, atom.idx)
          [] k = "~label"       -> atom.symbol
          [] k = "idx"          -> atom.idx
          [] k = "atomicNumber" -> atom.atomicNum
          [] k = "isAromatic"   -> atom.isAromatic]

\* Mutant of EdgeRow: the endpoints are written without the descriptor.
EdgeRow_NoSmiles(smiles, bond) ==
    [k \in EdgeColumns |->
        CASE k = "~id"    -> EdgeId(smiles, bond.begin, bond.end)
          [] k = "~label" -> bond.type
          [] k = "~from"  -> "Node-" \o Str(bond.begin)
          [] k = "~to"    -> "Node-" \o Str(bond.end)]

EdgeRow(smiles, bond) ==
    [k \in EdgeColumns |->
        CASE k = "~id"    -> EdgeId(smiles, bond.begin, bond.end)
          [] k = "~label" -> bond.type
          [] k = "~from"  -> NodeId(smiles, bond.begin)
          [] k = "~to"    -> NodeId(smiles, bond.end)]

\* pd.DataFrame.from_dict copies the columns into a new table
FromDict(dict) == [k \in DOMAIN dict |-> dict[k]]

Column(table, k) == { table[k][r] : r \in 1..Rows(table) }

----------------------------------------------------------------------------
(* The remote graph store, as far as the notebook's calls change it.       *)

EmptyStore == [V |-> {}, E |-> {}]

\* wr.neptune.to_property_graph on a table of vertices
UploadVertices(st, df) == [st EXCEPT !.V = @ \cup Column(df, "~id")]

\* wr.neptune.to_property_graph on a table of edges
UploadEdges(st, df) ==
    [st EXCEPT !.E = @ \cup { [id |-> df["~id"][r], from |-> df["~from"][r],
                               to |-> df["~to"][r]] : r \in 1..Rows(df) }]

\* the Gremlin text the clean-up loop sends for one identifier
DropQuery(i) == "g.V().has('~id', '" \o i \o "').drop();"

\* its effect: the vertex goes, and its incident edges with it
Drop(st, i) ==
    [V |-> st.V \ {i},
     E |-> { e \in st.E : e.from # i /\ e.to # i }]

----------------------------------------------------------------------------
(* The %%sparql cells of the SPARQL notebook.                              *)

NoRequest == [query |-> "", media_type |-> "", accept |-> ""]

SparqlCells ==
    { [media_type |-> "",
       query |-> "INSERT DATA { <https://test.com/s> <https://test.com/p> <https://test.com/o> . }"],
      [media_type |-> "",
       query |-> "SELECT ?s ?p ?o WHERE {?s ?p ?o} LIMIT 10"],
      [media_type |-> "application/sparql-results+xml",
       query |-> "SELECT ?s ?p ?o WHERE {?s ?p ?o} LIMIT 10"] }

\* Mutant of SparqlMediaType: the -m argument is ignored.
SparqlMediaType_IgnoresArg(args) == "application/sparql-results+json"

\* the media type the magic asks the endpoint for
SparqlMediaType(args) ==
    IF args.media_type = "" THEN "application/sparql-results+json"
                            ELSE args.media_type

SparqlCell(cell) ==
    /\ sparql_request' = [query |-> cell.query, media_type |-> cell.media_type,
                          accept |-> SparqlMediaType(cell)]
    /\ UNCHANGED <<pc, nodes_dict, edges_dict, caffeine_smiles, mol, ai, bi,
                   nodes_df, edges_df, client, store, ci, requests, runs, base>>

----------------------------------------------------------------------------
(* The molecule notebook, cell by cell.                                    *)

Init ==
    /\ pc = "GraphDataModel"
    /\ nodes_dict = EmptyDict(NodeColumns)
    /\ edges_dict = EmptyDict(EdgeColumns)
    /\ caffeine_smiles = ""
    /\ mol = None
    /\ ai = 0
    /\ bi = 0
    /\ nodes_df = EmptyDict(NodeColumns)
    /\ edges_df = EmptyDict(EdgeColumns)
    /\ client = FALSE
    /\ store = EmptyStore
    /\ ci = 0
    /\ requests = << >>
    /\ sparql_request = NoRequest
    /\ runs = 0
    /\ base = [nodes |-> EmptyDict(NodeColumns), edges |-> EmptyDict(EdgeColumns)]

\* nodes_dict = {...}; edges_dict = {...}: run first, or again when the user
\* starts the notebook over from the top
GraphDataModelCell ==
    /\ \/ pc = "GraphDataModel"
       \/ pc \in {"Loaded", "Raised"} /\ runs < MaxRuns
    /\ nodes_dict' = EmptyDict(NodeColumns)
    /\ edges_dict' = EmptyDict(EdgeColumns)
    /\ pc' = "Smiles"
    /\ UNCHANGED <<caffeine_smiles, mol, ai, bi, nodes_df, edges_df, client,
                   store, ci, requests, sparql_request, runs, base>>

\* caffeine_smiles = '...': in the notebook's order, or on returning to the
\* start of RDKit Processing with a different SMILES string
SmilesCell(smiles) ==
    /\ \/ pc = "Smiles"
       \/ pc \in {"Loaded", "Raised"} /\ runs < MaxRuns /\ smiles # caffeine_smiles
    /\ caffeine_smiles' = smiles
    /\ runs' = runs + 1
    /\ pc' = "MolFromSmiles"
    /\ UNCHANGED <<nodes_dict, edges_dict, mol, ai, bi, nodes_df, edges_df,
                   client, store, ci, requests, sparql_request, base>>

\* mol = Chem.MolFromSmiles(caffeine_smiles)
MolFromSmilesCell ==
    /\ pc = "MolFromSmiles"
    /\ mol' = MolFromSmiles(caffeine_smiles)
    /\ ai' = 0
    /\ bi' = 0
    /\ base' = [nodes |-> nodes_dict, edges |-> edges_dict]
    /\ pc' = "Projection"
    /\ UNCHANGED <<nodes_dict, edges_dict, caffeine_smiles, nodes_df, edges_df,
                   client, store, ci, requests, sparql_request, runs>>

\* Mutant of ProjectionRaise: a record is written before the failure shows.
ProjectionRaise_WritesFirst ==
    /\ pc = "Projection"
    /\ ~mol.valid
    /\ nodes_dict' = [nodes_dict EXCEPT !["~id"] = Append(@, NodeId(caffeine_smiles, 0))]
    /\ pc' = "Raised"
    /\ UNCHANGED <<edges_dict, caffeine_smiles, mol, ai, bi,
                   nodes_df, edges_df, client, store, ci, requests,
                   sparql_request, runs, base>>

\* mol.GetAtoms() on None: AttributeError, the cell stops
ProjectionRaise ==
    /\ pc = "Projection"
    /\ ~mol.valid
    /\ pc' = "Raised"
    /\ UNCHANGED <<nodes_dict, edges_dict, caffeine_smiles, mol, ai, bi,
                   nodes_df, edges_df, client, store, ci, requests,
                   sparql_request, runs, base>>

\* Mutant of AtomLoop: every atom is recorded twice.
AtomLoop_AppendsTwice ==
    /\ pc = "Projection"
    /\ mol.valid
    /\ ai < Len(mol.atoms)
    /\ nodes_dict' = AppendRow(AppendRow(nodes_dict, NodeRow(caffeine_smiles, mol.atoms[ai + 1])),
                               NodeRow(caffeine_smiles, mol.atoms[ai + 1]))
    /\ ai' = ai + 1
    /\ UNCHANGED <<pc, edges_dict, caffeine_smiles, mol, bi, nodes_df, edges_df,
                   client, store, ci, requests, sparql_request, runs, base>>

\* Mutant of AtomLoop: every atom is also written to the remote store.
AtomLoop_WritesStore ==
    /\ pc = "Projection"
    /\ mol.valid
    /\ ai < Len(mol.atoms)
    /\ nodes_dict' = AppendRow(nodes_dict, NodeRow(caffeine_smiles, mol.atoms[ai + 1]))
    /\ store' = [store EXCEPT !.V = @ \cup {NodeId(caffeine_smiles, mol.atoms[ai + 1].idx)}]
    /\ ai' = ai + 1
    /\ UNCHANGED <<pc, edges_dict, caffeine_smiles, mol, bi, nodes_df, edges_df,
                   client, ci, requests, sparql_request, runs, base>>

\* one iteration of: for atom in mol.GetAtoms()
AtomLoop ==
    /\ pc = "Projection"
    /\ mol.valid
    /\ ai < Len(mol.atoms)
    /\ nodes_dict' = AppendRow(nodes_dict, NodeRow(caffeine_smiles, mol.atoms[ai + 1]))
    /\ ai' = ai + 1
    /\ UNCHANGED <<pc, edges_dict, caffeine_smiles, mol, bi, nodes_df, edges_df,
                   client, store, ci, requests, sparql_request, runs, base>>

\* one iteration of: for bond in mol.GetBonds()
BondLoop ==
    /\ pc = "Projection"
    /\ mol.valid
    /\ ai = Len(mol.atoms)
    /\ bi < Len(mol.bonds)
    /\ edges_dict' = AppendRow(edges_dict, EdgeRow(caffeine_smiles, mol.bonds[bi + 1]))
    /\ bi' = bi + 1
    /\ UNCHANGED <<pc, nodes_dict, caffeine_smiles, mol, ai, nodes_df, edges_df,
                   client, store, ci, requests, sparql_request, runs, base>>

\* both loops exhausted: the cell returns
ProjectionEnd ==
    /\ pc = "Projection"
    /\ mol.valid
    /\ ai = Len(mol.atoms)
    /\ bi = Len(mol.bonds)
    /\ pc' = "FromDict"
    /\ UNCHANGED <<nodes_dict, edges_dict, caffeine_smiles, mol, ai, bi,
                   nodes_df, edges_df, client, store, ci, requests,
                   sparql_request, runs, base>>

\* nodes_df = pd.DataFrame.from_dict(nodes_dict); edges_df likewise
FromDictCell ==
    /\ pc = "FromDict"
    /\ nodes_df' = FromDict(nodes_dict)
    /\ edges_df' = FromDict(edges_dict)
    /\ pc' = "Connect"
    /\ UNCHANGED <<nodes_dict, edges_dict, caffeine_smiles, mol, ai, bi, client,
                   store, ci, requests, sparql_request, runs, base>>

\* client = wr.neptune.connect(host, 8182, iam_enabled=False)
ConnectCell ==
    /\ pc = "Connect"
    /\ client' = TRUE
    /\ pc' = "UploadNodes"
    /\ UNCHANGED <<nodes_dict, edges_dict, caffeine_smiles, mol, ai, bi,
                   nodes_df, edges_df, store, ci, requests, sparql_request,
                   runs, base>>

\* Mutant of UploadNodesCell: the cell hands over the edge table.
UploadNodesCell_EdgeTable ==
    /\ pc = "UploadNodes"
    /\ client
    /\ store' = UploadEdges(store, edges_df)
    /\ pc' = "UploadEdges"
    /\ UNCHANGED <<nodes_dict, edges_dict, caffeine_smiles, mol, ai, bi,
                   nodes_df, edges_df, client, ci, requests, sparql_request,
                   runs, base>>

\* wr.neptune.to_property_graph(client, df=nodes_df)
UploadNodesCell ==
    /\ pc = "UploadNodes"
    /\ client
    /\ store' = UploadVertices(store, nodes_df)
    /\ pc' = "UploadEdges"
    /\ UNCHANGED <<nodes_dict, edges_dict, caffeine_smiles, mol, ai, bi,
                   nodes_df, edges_df, client, ci, requests, sparql_request,
                   runs, base>>

\* wr.neptune.to_property_graph(client, df=edges_df)
UploadEdgesCell ==
    /\ pc = "UploadEdges"
    /\ client
    /\ store' = UploadEdges(store, edges_df)
    /\ pc' = "Loaded"
    /\ UNCHANGED <<nodes_dict, edges_dict, caffeine_smiles, mol, ai, bi,
                   nodes_df, edges_df, client, ci, requests, sparql_request,
                   runs, base>>

\* Mutant of CleanUpLoop: the loop walks the edge table.
CleanUpLoop_EdgeTable ==
    /\ pc \in {"Loaded", "CleanUp"}
    /\ ci < Rows(nodes_df)
    /\ ci < Rows(edges_df)
    /\ requests' = Append(requests, DropQuery(edges_df["~id"][ci + 1]))
    /\ store' = Drop(store, edges_df["~id"][ci + 1])
    /\ ci' = ci + 1
    /\ pc' = "CleanUp"
    /\ UNCHANGED <<nodes_dict, edges_dict, caffeine_smiles, mol, ai, bi,
                   nodes_df, edges_df, client, sparql_request, runs, base>>

\* one iteration of: for i in nodes_df['~id']: execute_gremlin(... drop ...)
CleanUpLoop ==
    /\ pc \in {"Loaded", "CleanUp"}
    /\ ci < Rows(nodes_df)
    /\ requests' = Append(requests, DropQuery(nodes_df["~id"][ci + 1]))
    /\ store' = Drop(store, nodes_df["~id"][ci + 1])
    /\ ci' = ci + 1
    /\ pc' = "CleanUp"
    /\ UNCHANGED <<nodes_dict, edges_dict, caffeine_smiles, mol, ai, bi,
                   nodes_df, edges_df, client, sparql_request, runs, base>>

\* the clean-up loop is exhausted: the cell returns
CleanUpEnd ==
    /\ pc \in {"Loaded", "CleanUp"}
    /\ ci = Rows(nodes_df)
    /\ pc' = "Done"
    /\ UNCHANGED <<nodes_dict, edges_dict, caffeine_smiles, mol, ai, bi,
                   nodes_df, edges_df, client, store, ci, requests,
                   sparql_request, runs, base>>

Next ==
    \/ GraphDataModelCell
    \/ \E smiles \in Descriptors : SmilesCell(smiles)
    \/ MolFromSmilesCell
    \/ ProjectionRaise
    \/ AtomLoop
    \/ BondLoop
    \/ ProjectionEnd
    \/ FromDictCell
    \/ ConnectCell
    \/ UploadNodesCell
    \/ UploadEdgesCell
    \/ CleanUpLoop
    \/ CleanUpEnd
    \/ \E cell \in SparqlCells : SparqlCell(cell)

Spec == Init /\ [][Next]_vars

----------------------------------------------------------------------------
(* Properties.                                                             *)

\* the projection of this conversion has returned and the dicts are as it left them
AfterProjection ==
    pc \in {"FromDict", "Connect", "UploadNodes", "UploadEdges", "Loaded",
            "CleanUp", "Done"}

\* the projection of this conversion is running or has returned
InProjection == pc = "Projection" \/ AfterProjection

\* rows of the node / edge dict written by this conversion
RunNodeRows == (Rows(base.nodes) + 1)..Rows(nodes_dict)
RunEdgeRows == (Rows(base.edges) + 1)..Rows(edges_dict)

FromEmpty == Rows(base.nodes) = 0 /\ Rows(base.edges) = 0

\* what a projection of (smiles, m) writes into empty dicts
ExpectedNodeIds(smiles, m) ==
    [k \in 1..Len(m.atoms) |-> "Node-" \o smiles \o Str(m.atoms[k].idx)]
ExpectedEdgeIds(smiles, m) ==
    [k \in 1..Len(m.bonds) |->
        "edge-" \o smiles \o Str(m.bonds[k].begin) \o Str(m.bonds[k].end)]

\* C1: after the projection step the node collection has exactly N rows and
\* the edge collection exactly M rows, N and M the parsed molecule's atom
\* and bond counts.
C1_RowCounts ==
    AfterProjection =>
        /\ Rows(nodes_dict) = Len(mol.atoms)
        /\ Rows(edges_dict) = Len(mol.bonds)

\* C2: every edge record's ~from and ~to is the ~id of a node record; the
\* edge written for a bond has as ~from the ~id of the node record of the
\* same conversion whose idx is the bond's begin index, and as ~to the one
\* whose idx is the bond's end index.
C2_EdgeEndpointsAreNodes ==
    InProjection =>
        /\ \A r \in 1..Rows(edges_dict) :
              /\ edges_dict["~from"][r] \in Column(nodes_dict, "~id")
              /\ edges_dict["~to"][r] \in Column(nodes_dict, "~id")
        /\ \A k \in 1..bi :
              LET r == Rows(base.edges) + k
                  bond == mol.bonds[k]
              IN  /\ \E n \in RunNodeRows : nodes_dict["idx"][n] = bond.begin
                  /\ \E n \in RunNodeRows : nodes_dict["idx"][n] = bond.end
                  /\ \A n \in RunNodeRows :
                        /\ nodes_dict["idx"][n] = bond.begin
                              => edges_dict["~from"][r] = nodes_dict["~id"][n]
                        /\ nodes_dict["idx"][n] = bond.end
                              => edges_dict["~to"][r] = nodes_dict["~id"][n]

C2_Witness ==
    /\ pc = "FromDict"
    /\ caffeine_smiles = Caffeine
    /\ bi = Len(mol.bonds)
    /\ Rows(base.edges) > 0

\* C3: within one conversion two node records with different atom indices
\* have different ~id values.
C3_NodeIdsDistinct ==
    InProjection =>
        \A m, n \in RunNodeRows :
            nodes_dict["idx"][m] # nodes_dict["idx"][n]
                => nodes_dict["~id"][m] # nodes_dict["~id"][n]

C3_Witness ==
    /\ pc = "Projection"
    /\ ai > 10
    /\ Cardinality(RunNodeRows) > 10

\* C4: the tables built and uploaded for a conversion hold the records of
\* that conversion's molecule and none of an earlier one.
C4_TablesFreshPerRun ==
    pc \in {"Connect", "UploadNodes", "UploadEdges", "Loaded"} =>
        /\ nodes_df["~id"] = ExpectedNodeIds(caffeine_smiles, mol)
        /\ edges_df["~id"] = ExpectedEdgeIds(caffeine_smiles, mol)

\* C6: the caffeine descriptor, projected into empty dicts, gives 14 node
\* records and 15 edge records.
C6_CaffeineCounts ==
    (AfterProjection /\ FromEmpty /\ caffeine_smiles = Caffeine) =>
        /\ Rows(nodes_dict) = 14
        /\ Rows(edges_dict) = 15

C6_Witness ==
    /\ pc = "FromDict"
    /\ FromEmpty
    /\ caffeine_smiles = Caffeine

\* C7: the clean-up loop has sent one drop request per node-table row it
\* has visited, in table order, each for that row's ~id alone; when it
\* returns it has sent one per row; and no request is for an edge ~id.
C7_OneDropPerNodeRow ==
    /\ Len(requests) = ci
    /\ ci <= Rows(nodes_df)
    /\ \A k \in 1..Len(requests) :
          /\ requests[k] = "g.V().has('~id', '" \o nodes_df["~id"][k] \o "').drop();"
          /\ \A e \in Column(edges_df, "~id") :
                requests[k] # "g.V().has('~id', '" \o e \o "').drop();"
    /\ pc = "Done" => Len(requests) = Rows(nodes_df)

C7_Witness ==
    /\ pc = "Done"
    /\ Len(requests) > 14
    /\ Rows(edges_df) > 0

\* C8: a %%sparql request sent without -m asks for
\* application/sparql-results+json; one sent with -m asks for the media
\* type given.
C8_SparqlMediaType ==
    sparql_request # NoRequest =>
        /\ sparql_request.media_type = ""
              => sparql_request.accept = "application/sparql-results+json"
        /\ sparql_request.media_type # ""
              => sparql_request.accept = sparql_request.media_type

C8_Witness ==
    /\ sparql_request.media_type = "application/sparql-results+xml"
    /\ sparql_request.accept = "application/sparql-results+xml"

\* C9: when the parser yielded no molecule the projection cell fails
\* without writing: the dicts are as they were before it, and from the
\* failure nothing happens but what the user does next (a new descriptor,
\* or the notebook from the top).
C9_ParseFailureWritesNothing ==
    /\ [](pc = "Raised" =>
            /\ ~mol.valid
            /\ nodes_dict = base.nodes
            /\ edges_dict = base.edges)
    /\ [][(pc = "Projection" /\ ~mol.valid) =>
            /\ UNCHANGED <<nodes_dict, edges_dict>>
            /\ pc' \in {"Projection", "Raised"}]_vars
    /\ [][pc = "Raised" =>
            /\ pc' \in {"Raised", "Smiles", "MolFromSmiles"}
            /\ UNCHANGED <<mol, store, nodes_df, edges_df>>]_vars

C9_Witness ==
    /\ pc = "Raised"
    /\ Rows(nodes_dict) > 0

\* C10: a step of the projection changes nothing but the two dicts, and
\* the remote store changes only by an upload call or a clean-up request.
C10_ProjectionFrame ==
    [][/\ pc = "Projection" =>
            UNCHANGED <<caffeine_smiles, mol, client, store, nodes_df,
                        edges_df, ci, requests>>
       /\ store' # store =>
            \/ pc = "UploadNodes" /\ store' = UploadVertices(store, nodes_df)
            \/ pc = "UploadEdges" /\ store' = UploadEdges(store, edges_df)
            \/ /\ pc \in {"Loaded", "CleanUp"}
               /\ Len(requests') = Len(requests) + 1]_vars

C10_Witness ==
    /\ pc = "Projection"
    /\ ai > 0
    /\ bi > 0
    /\ store.V # {}
    /\ store.E # {}

\* C11: within one conversion two bonds with different (begin index, end
\* index) pairs have different edge ~id values.
C11_EdgeIdsDistinct ==
    InProjection =>
        \A j, k \in 1..bi :
            <<mol.bonds[j].begin, mol.bonds[j].end>>
                    # <<mol.bonds[k].begin, mol.bonds[k].end>>
                => edges_dict["~id"][Rows(base.edges) + j]
                        # edges_dict["~id"][Rows(base.edges) + k]

\* C12: a node ~id written for this conversion's descriptor is not the node
\* ~id of an atom of a different descriptor's molecule that is already in
\* the remote store.
C12_NodeIdsDistinctAcrossDescriptors ==
    pc = "UploadNodes" =>
        \A n \in RunNodeRows :
            nodes_dict["~id"][n] \in store.V =>
                \A d \in Descriptors \ {caffeine_smiles} :
                    \A k \in 1..Len(MolFromSmiles(d).atoms) :
                        nodes_dict["~id"][n]
                            # "Node-" \o d \o Str(MolFromSmiles(d).atoms[k].idx)

\* C13: when the edge table is about to be uploaded, the ~from and the ~to
\* of every one of its rows is the identifier of a vertex in the remote store.
C13_EndpointsStoredBeforeEdges ==
    pc = "UploadEdges" =>
        \A r \in 1..Rows(edges_df) :
            /\ edges_df["~from"][r] \in store.V
            /\ edges_df["~to"][r] \in store.V

C13_Witness ==
    /\ pc = "UploadEdges"
    /\ caffeine_smiles = Caffeine
    /\ Rows(edges_df) > 15

\* C14: after every iteration of the atom loop the five node columns, and
\* after every iteration of the bond loop the four edge columns, are equally
\* long; the rows written before this conversion are untouched, and row k of
\* this conversion holds in every column the value of atom k, or bond k.
Aligned(table) == \A c \in DOMAIN table : Len(table[c]) = Rows(table)

C14_ColumnsAligned ==
    /\ DOMAIN nodes_dict = NodeColumns
    /\ DOMAIN edges_dict = EdgeColumns
    /\ Aligned(nodes_dict)
    /\ Aligned(edges_dict)
    /\ InProjection =>
        /\ Rows(nodes_dict) = Rows(base.nodes) + ai
        /\ Rows(edges_dict) = Rows(base.edges) + bi
        /\ \A c \in NodeColumns :
              SubSeq(nodes_dict[c], 1, Rows(base.nodes)) = base.nodes[c]
        /\ \A c \in EdgeColumns :
              SubSeq(edges_dict[c], 1, Rows(base.edges)) = base.edges[c]
        /\ \A k \in 1..ai :
              LET r == Rows(base.nodes) + k
                  atom == mol.atoms[k]
              IN  /\ nodes_dict["~id"][r] = "Node-" \o caffeine_smiles \o Str(atom.idx)
                  /\ nodes_dict["~label"][r] = atom.symbol
                  /\ nodes_dict["idx"][r] = atom.idx
                  /\ nodes_dict["atomicNumber"][r] = atom.atomicNum
                  /\ nodes_dict["isAromatic"][r] = atom.isAromatic
        /\ \A k \in 1..bi :
              LET r == Rows(base.edges) + k
                  bond == mol.bonds[k]
              IN  /\ edges_dict["~id"][r]
                        = "edge-" \o caffeine_smiles \o Str(bond.begin) \o Str(bond.end)
                  /\ edges_dict["~label"][r] = bond.type
                  /\ edges_dict["~from"][r] = "Node-" \o caffeine_smiles \o Str(bond.begin)
                  /\ edges_dict["~to"][r] = "Node-" \o caffeine_smiles \o Str(bond.end)

C14_Witness ==
    /\ pc = "Projection"
    /\ Rows(base.nodes) > 0
    /\ Rows(base.edges) > 0
    /\ ai > 1
    /\ bi > 1

====
